---- MODULE Spec2Model ----
(***************************************************************************)
(* Model of the waveform example (src/main.c): the shared junk_context,    *)
(* the receive callback packet_rx, the transmit callback packet_tx and the *)
(* state callback state_test, as the waveform library invokes them.        *)
(*                                                                         *)
(* packet_rx and packet_tx are modelled statement by statement, each with  *)
(* its own program counter, so that the library's threads may interleave   *)
(* them.  ctx->tx is a plain bool: a read that races with the store in     *)
(* state_test yields the old or the new value, which the model realises by *)
(* ordering the reading step before or after the storing step.             *)
(*                                                                         *)
(* For a packet of odd length the last iteration of either loop stores to  *)
(* samples[len], one element past the VLA.  The store is recorded in       *)
(* rx_oob / tx_oob, and what it does to the process is left open: the      *)
(* callback goes on, or the process stops (fault), after which no callback *)
(* runs.                                                                   *)
(*                                                                         *)
(* The callbacks that only print (echo_command, test_command, data_rx,     *)
(* set_filter_callback) are single steps; main is modelled from its first  *)
(* registration to the return of waveform_radio_wait.                      *)
(*                                                                         *)
(* The specifications share the callbacks and differ in what the library   *)
(* delivers: Spec interleaves the data callbacks statement by statement    *)
(* over a few short packets; SpecAll does so with every callback and every *)
(* state; SpecRun is a long session of one-pair packets (the sawtooth and  *)
(* the heartbeat need hundreds of packets); SpecPhase mixes packet lengths *)
(* for long enough that both phases wrap; SpecState delivers every         *)
(* waveform state, in any order; SpecMain starts at main's registrations.  *)
(* All but Spec and SpecAll run one callback at a time.                    *)
(***************************************************************************)
EXTENDS Integers, Sequences, FiniteSets

\* ------------------------------------------------------------------ bounds

\* Largest sample count of a packet in the interleaved specification.
MaxLen == 2
\* Packets the receive path processes in the interleaved specification.
MaxPackets == 2
\* Stereo pairs the transmit path may have produced before the interleaved
\* specification stops dispatching transmit packets.
MaxTxPairs == 1
\* Packets the receive path processes in the long run (SpecRun).
MaxRunPackets == 305
\* Largest sample count and number of processed receive packets in the
\* phase run (SpecPhase).
MaxPhaseLen == 4
MaxPhasePackets == 14
\* Sample count of the transmit packets of the phase run.
PhaseTxLen == 16
\* Sample count of the packets of the long run (one stereo pair).
RunLen == 2
\* In the state run (SpecState): processed receive packets, transmit pairs,
\* and commands the radio has not answered yet.
MaxStatePackets == 2
MaxStateTxPairs == 2
MaxPending == 2
\* In the specification of all callbacks (SpecAll): processed receive
\* packets, transmit pairs, unanswered commands, and the arguments of a
\* status or a command.
MaxAllPackets == 1
MaxAllTxPairs == 1
MaxAllPending == 1
MaxArgs == 2
\* In the specification of main (SpecMain): processed receive packets and
\* transmit pairs.
MaxMainPackets == 1
MaxMainTxPairs == 1

\* ------------------------------------------------------- program constants

\* Entries of sin_table, the modulus of both phases.
CYCLE_LEN == 24
\* The range of the "junk-snr" meter, and of the sawtooth.
SNR_MAX == 100
SNR_MIN == -100
\* A heartbeat goes out every HEARTBEAT_PERIOD processed receive packets.
HEARTBEAT_PERIOD == 100
\* meters[]: the registered range of "junk-snr".
JUNK_SNR_MIN == -100
JUNK_SNR_MAX == 100

WaveformStates == {"ACTIVE", "INACTIVE", "PTT_REQUESTED", "UNKEY_REQUESTED", "UNKNOWN"}

\* The two states that key and unkey the transmitter.
KeyingStates == {"PTT_REQUESTED", "UNKEY_REQUESTED"}

VARIABLES
    \* struct junk_context
    rx_phase, tx_phase, tx, snr, byte_data_counter,
    \* packet_rx: position, get_packet_len(packet), loop index, the VLA
    rx_pc, rx_len, rx_i, null_samples,
    \* packet_tx: position, get_packet_len(packet), loop index, the VLA
    tx_pc, tx_len, tx_i, xmit_samples,
    \* what went to the library: the last SPEAKER_DATA and TRANSMITTER_DATA
    \* packets, the value set on "junk-snr", the value last flushed by
    \* waveform_meters_send, the last byte data packet, the last API command
    speaker, transmitter, meter_value, meters_sent, byte_packet, api_command,
    \* stores outside a VLA (indices), and whether one of them ended the process
    rx_oob, tx_oob, fault,
    \* history: the value of ctx->tx each running invocation read, the
    \* blocks it sent so far, processed receive packets, stereo pairs (loop
    \* iterations) of the packets sent to the speaker, whether a processed
    \* receive packet had an odd length, heartbeats sent
    rx_saw_tx, rx_blocks, tx_saw_tx, tx_blocks,
    rx_processed, speaker_pairs, rx_odd_seen, heartbeats,
    \* history: the "junk-snr" updates and the meter flushes of the running
    \* receive invocation
    rx_sets, rx_flushes,
    \* state_test: the state the library delivered last, whether the call
    \* before delivered the same one, the API commands the last call issued;
    \* the commands whose completion callback is still to come
    wf_state, st_repeated, st_commands, api_pending,
    \* history: the state that had been delivered last when the library called
    \* the running receive and transmit invocations ("none" outside them)
    rx_call_state, tx_call_state,
    \* echo_command, test_command, data_rx: the one that ran last and the
    \* lines it printed
    cb_last, cb_lines,
    \* main: position, int res, the callbacks the library holds, whether
    \* waveform_set_context has stored &ctx, whether the library's event loops
    \* run
    main_pc, res, registered, ctx_installed, radio_running

ctx_vars == <<rx_phase, tx_phase, tx, snr, byte_data_counter>>
rx_vars == <<rx_pc, rx_len, rx_i, null_samples>>
tx_vars == <<tx_pc, tx_len, tx_i, xmit_samples>>
out_vars == <<speaker, transmitter, meter_value, meters_sent, byte_packet, api_command>>
ub_vars == <<rx_oob, tx_oob, fault>>
rx_hist == <<rx_saw_tx, rx_blocks, rx_processed, speaker_pairs, rx_odd_seen, heartbeats,
             rx_sets, rx_flushes>>
tx_hist == <<tx_saw_tx, tx_blocks>>
st_vars == <<wf_state, st_repeated, st_commands, api_pending>>
call_vars == <<rx_call_state, tx_call_state>>
cb_vars == <<cb_last, cb_lines>>
main_vars == <<main_pc, res, registered, ctx_installed, radio_running>>
vars == <<ctx_vars, rx_vars, tx_vars, out_vars, ub_vars, rx_hist, tx_hist, st_vars,
          call_vars, cb_vars, main_vars>>

\* ----------------------------------------------------------------- helpers

\* memset(samples, 0, sizeof(samples)): a sample no loop iteration wrote.
ZeroSample == [entry |-> -1, scale |-> "0"]

\* sin_table[phase] * 0.5F, kept symbolic: the table entry and the scale.
HalfSample(phase) == [entry |-> phase, scale |-> "0.5F"]

\* float samples[get_packet_len(packet)], zero-filled; indices 0..len-1.
ZeroBuffer(len) == [i \in 0..(len - 1) |-> ZeroSample]

NoBuffer == ZeroBuffer(0)

\* samples[i] = samples[i + 1] = value: the stores that fall inside the VLA.
StorePair(samples, len, i, value) ==
    [j \in 0..(len - 1) |-> IF j = i \/ j = i + 1 THEN value ELSE samples[j]]

\* The indices of that statement's stores that fall outside the VLA.
OutOfBounds(len, i) == {j \in {i, i + 1} : j >= len}

\* The advance without its modulus.
NextPhaseNoWrap(phase) == (phase + 1) % 256

\* The advance stepping over a table entry.
NextPhaseSkip(phase) == ((phase + 2) % 256) % CYCLE_LEN

\* (phase + 1) % 24 on an _Atomic uint8_t.
NextPhase(phase) == ((phase + 1) % 256) % CYCLE_LEN

\* The sawtooth as a clamp: the value stays at the maximum.
NextSnrClamp(s) == IF s + 1 > SNR_MAX THEN SNR_MAX ELSE s + 1

\* The sawtooth with a second increment in the else branch.
NextSnrTwice(s) == IF s + 1 > SNR_MAX THEN SNR_MIN ELSE s + 2

\* The sawtooth resetting one step late.
NextSnrLate(s) == IF s + 1 > SNR_MAX + 1 THEN SNR_MIN ELSE s + 1

\* ctx->snr = ++ctx->snr > 100 ? -100 : ctx->snr, on an int16_t.
NextSnr(s) == IF s + 1 > SNR_MAX THEN SNR_MIN ELSE s + 1

\* The test on the counter's value before the increment.
HeartbeatDuePostIncrement(counter) == (counter - 1) % HEARTBEAT_PERIOD = 0

\* ++ctx->byte_data_counter % 100 == 0, on the incremented counter.
HeartbeatDue(counter) == counter % HEARTBEAT_PERIOD = 0

\* snprintf's %ld: the decimal digits of a non-negative value.
RECURSIVE DecimalDigits(_)
DecimalDigits(n) == IF n < 10 THEN <<n>> ELSE Append(DecimalDigits(n \div 10), n % 10)

\* "Callback Counter: %ld\n" in a buffer of len + 1 bytes, all of it sent.
CounterMessage(n) ==
    [text |-> "Callback Counter: ", digits |-> DecimalDigits(n), newline |-> TRUE,
     size |-> 18 + Len(DecimalDigits(n)) + 1 + 1]

NoPacket == [stream |-> "none", len |-> 0, samples |-> NoBuffer, flag |-> FALSE]

NoMessage == [text |-> "", digits |-> <<>>, newline |-> FALSE, size |-> 0]

\* ------------------------------------------------------------------- Init

\* struct junk_context ctx = {0}; no callback has run.
InitSession ==
    /\ rx_phase = 0 /\ tx_phase = 0 /\ tx = FALSE /\ snr = 0 /\ byte_data_counter = 0
    /\ rx_pc = "idle" /\ rx_len = 0 /\ rx_i = 0 /\ null_samples = NoBuffer
    /\ tx_pc = "idle" /\ tx_len = 0 /\ tx_i = 0 /\ xmit_samples = NoBuffer
    /\ speaker = NoPacket /\ transmitter = NoPacket
    /\ meter_value = 0 /\ meters_sent = 0 /\ byte_packet = NoMessage /\ api_command = ""
    /\ rx_oob = {} /\ tx_oob = {} /\ fault = FALSE
    /\ rx_saw_tx = FALSE /\ rx_blocks = 0 /\ tx_saw_tx = FALSE /\ tx_blocks = 0
    /\ rx_processed = 0 /\ speaker_pairs = 0 /\ rx_odd_seen = FALSE /\ heartbeats = 0
    /\ rx_sets = 0 /\ rx_flushes = 0
    /\ wf_state = "none" /\ st_repeated = FALSE /\ st_commands = 0 /\ api_pending = 0
    /\ rx_call_state = "none" /\ tx_call_state = "none"
    /\ cb_last = "none" /\ cb_lines = 0

\* The callbacks main registers, in the order of its registrations.
Callbacks == <<"echo_command", "state_test", "packet_rx", "packet_tx", "data_rx",
               "test_command">>

\* The session as the callbacks see it: main has registered them all, stored
\* the context and started the radio, and sits in waveform_radio_wait.
Init ==
    /\ InitSession
    /\ main_pc = "radio_wait" /\ res = 0
    /\ registered = {Callbacks[k] : k \in 1..Len(Callbacks)}
    /\ ctx_installed = TRUE /\ radio_running = TRUE

\* The process as main finds it after waveform_create: struct junk_context
\* ctx = {0}, nothing registered, no context stored, the radio not started.
InitMain ==
    /\ InitSession
    /\ main_pc = Callbacks[1] /\ res = 0
    /\ registered = {}
    /\ ctx_installed = FALSE /\ radio_running = FALSE

\* -------------------------------------------------------------- packet_rx

\* The library calls packet_rx with a packet of len samples.
packet_rx_call(len) ==
    /\ UNCHANGED <<main_vars, cb_vars, st_vars, tx_call_state>>
    /\ ~fault /\ rx_pc = "idle"
    /\ rx_pc' = "check" /\ rx_len' = len /\ rx_i' = 0 /\ null_samples' = NoBuffer
    /\ rx_blocks' = 0 /\ rx_saw_tx' = FALSE /\ rx_oob' = {}
    /\ rx_sets' = 0 /\ rx_flushes' = 0
    /\ rx_call_state' = wf_state
    /\ UNCHANGED <<ctx_vars, tx_vars, out_vars, tx_oob, fault, tx_hist,
                   rx_processed, speaker_pairs, rx_odd_seen, heartbeats>>

\* packet_rx without its test of ctx->tx: every packet is processed.
packet_rx_check_ignoring_tx ==
    /\ UNCHANGED <<main_vars, cb_vars, st_vars, call_vars>>
    /\ ~fault /\ rx_pc = "check"
    /\ rx_saw_tx' = tx
    /\ rx_pc' = "loop" /\ rx_i' = 0
    /\ null_samples' = ZeroBuffer(rx_len)
    /\ rx_processed' = rx_processed + (IF tx THEN 0 ELSE 1)
    /\ rx_odd_seen' = (rx_odd_seen \/ rx_len % 2 = 1)
    /\ UNCHANGED <<ctx_vars, rx_len, tx_vars, out_vars, ub_vars, tx_hist,
                   rx_blocks, speaker_pairs, heartbeats, rx_sets, rx_flushes>>

\* packet_rx counting every packet it is called with, before its test.
packet_rx_check_counting_all ==
    /\ UNCHANGED <<main_vars, cb_vars, st_vars, tx_call_state>>
    /\ ~fault /\ rx_pc = "check"
    /\ rx_saw_tx' = tx
    /\ IF tx
          THEN /\ rx_pc' = "idle" /\ rx_len' = 0 /\ rx_call_state' = "none"
               /\ byte_data_counter' = byte_data_counter + 1
               /\ UNCHANGED <<rx_i, null_samples, rx_processed, rx_odd_seen>>
          ELSE /\ rx_pc' = "loop" /\ rx_i' = 0
               /\ null_samples' = ZeroBuffer(rx_len)
               /\ rx_processed' = rx_processed + 1
               /\ rx_odd_seen' = (rx_odd_seen \/ rx_len % 2 = 1)
               /\ UNCHANGED <<rx_len, byte_data_counter, rx_call_state>>
    /\ UNCHANGED <<rx_phase, tx_phase, tx, snr, tx_vars, out_vars, ub_vars, tx_hist,
                   rx_blocks, speaker_pairs, heartbeats, rx_sets, rx_flushes>>

\* if (ctx->tx) return;  otherwise the VLA is declared and zeroed.
packet_rx_check ==
    /\ UNCHANGED <<main_vars, cb_vars, st_vars, tx_call_state>>
    /\ ~fault /\ rx_pc = "check"
    /\ rx_saw_tx' = tx
    /\ IF tx
          THEN /\ rx_pc' = "idle" /\ rx_len' = 0 /\ rx_call_state' = "none"
               /\ UNCHANGED <<rx_i, null_samples, rx_processed, rx_odd_seen>>
          ELSE /\ rx_pc' = "loop" /\ rx_i' = 0
               /\ null_samples' = ZeroBuffer(rx_len)
               /\ rx_processed' = rx_processed + 1
               /\ rx_odd_seen' = (rx_odd_seen \/ rx_len % 2 = 1)
               /\ UNCHANGED <<rx_len, rx_call_state>>
    /\ UNCHANGED <<ctx_vars, tx_vars, out_vars, ub_vars, tx_hist,
                   rx_blocks, speaker_pairs, heartbeats, rx_sets, rx_flushes>>

\* One iteration of for (i = 0; i < len; i += 2): both stores, then the phase.
packet_rx_loop ==
    /\ UNCHANGED <<main_vars, cb_vars, st_vars, call_vars>>
    /\ ~fault /\ rx_pc = "loop" /\ rx_i < rx_len
    /\ null_samples' = StorePair(null_samples, rx_len, rx_i, HalfSample(rx_phase))
    /\ rx_oob' = rx_oob \cup OutOfBounds(rx_len, rx_i)
    /\ fault' \in (IF OutOfBounds(rx_len, rx_i) = {} THEN {FALSE} ELSE BOOLEAN)
    /\ rx_phase' = NextPhase(rx_phase)
    /\ rx_i' = rx_i + 2
    /\ UNCHANGED <<tx_phase, tx, snr, byte_data_counter, rx_pc, rx_len, tx_vars,
                   out_vars, tx_oob, rx_hist, tx_hist>>

\* The loop's test fails: on to waveform_send_data_packet.
packet_rx_loop_end ==
    /\ UNCHANGED <<main_vars, cb_vars, st_vars, call_vars>>
    /\ ~fault /\ rx_pc = "loop" /\ rx_i >= rx_len
    /\ rx_pc' = "send"
    /\ UNCHANGED <<ctx_vars, rx_len, rx_i, null_samples, tx_vars, out_vars, ub_vars,
                   rx_hist, tx_hist>>

\* packet_rx sending as many samples as its loop stored: the index the loop
\* ended on, not the packet's length.
packet_rx_send_stored ==
    /\ UNCHANGED <<main_vars, cb_vars, st_vars, call_vars>>
    /\ ~fault /\ rx_pc = "send"
    /\ speaker' = [stream |-> "SPEAKER_DATA", len |-> rx_i,
                   samples |-> null_samples, flag |-> tx]
    /\ rx_blocks' = rx_blocks + 1
    /\ speaker_pairs' = speaker_pairs + (rx_i \div 2)
    /\ rx_pc' = "meter_set"
    /\ UNCHANGED <<ctx_vars, rx_len, rx_i, null_samples, tx_vars, transmitter,
                   meter_value, meters_sent, byte_packet, api_command, ub_vars,
                   rx_saw_tx, rx_processed, rx_odd_seen, heartbeats, rx_sets,
                   rx_flushes, tx_hist>>

\* waveform_send_data_packet(waveform, null_samples, len, SPEAKER_DATA).
packet_rx_send ==
    /\ UNCHANGED <<main_vars, cb_vars, st_vars, call_vars>>
    /\ ~fault /\ rx_pc = "send"
    /\ speaker' = [stream |-> "SPEAKER_DATA", len |-> rx_len,
                   samples |-> null_samples, flag |-> tx]
    /\ rx_blocks' = rx_blocks + 1
    /\ speaker_pairs' = speaker_pairs + (rx_i \div 2)
    /\ rx_pc' = "meter_set"
    /\ UNCHANGED <<ctx_vars, rx_len, rx_i, null_samples, tx_vars, transmitter,
                   meter_value, meters_sent, byte_packet, api_command, ub_vars,
                   rx_saw_tx, rx_processed, rx_odd_seen, heartbeats, rx_sets,
                   rx_flushes, tx_hist>>

\* packet_rx reporting the metric it is about to store: the advanced value.
packet_rx_meter_set_advanced ==
    /\ UNCHANGED <<main_vars, cb_vars, st_vars, call_vars>>
    /\ ~fault /\ rx_pc = "meter_set"
    /\ meter_value' = NextSnr(snr)
    /\ rx_sets' = rx_sets + 1
    /\ rx_pc' = "meters_send"
    /\ UNCHANGED <<ctx_vars, rx_len, rx_i, null_samples, tx_vars, speaker, transmitter,
                   meters_sent, byte_packet, api_command, ub_vars, rx_saw_tx, rx_blocks,
                   rx_processed, speaker_pairs, rx_odd_seen, heartbeats, rx_flushes,
                   tx_hist>>

\* waveform_meter_set_float_value(waveform, "junk-snr", (float) ctx->snr).
packet_rx_meter_set ==
    /\ UNCHANGED <<main_vars, cb_vars, st_vars, call_vars>>
    /\ ~fault /\ rx_pc = "meter_set"
    /\ meter_value' = snr
    /\ rx_sets' = rx_sets + 1
    /\ rx_pc' = "meters_send"
    /\ UNCHANGED <<ctx_vars, rx_len, rx_i, null_samples, tx_vars, speaker, transmitter,
                   meters_sent, byte_packet, api_command, ub_vars, rx_saw_tx, rx_blocks,
                   rx_processed, speaker_pairs, rx_odd_seen, heartbeats, rx_flushes,
                   tx_hist>>

\* waveform_meters_send(waveform).
packet_rx_meters_send ==
    /\ UNCHANGED <<main_vars, cb_vars, st_vars, call_vars>>
    /\ ~fault /\ rx_pc = "meters_send"
    /\ meters_sent' = meter_value
    /\ rx_flushes' = rx_flushes + 1
    /\ rx_pc' = "snr"
    /\ UNCHANGED <<ctx_vars, rx_len, rx_i, null_samples, tx_vars, speaker, transmitter,
                   meter_value, byte_packet, api_command, ub_vars, rx_saw_tx, rx_blocks,
                   rx_processed, speaker_pairs, rx_odd_seen, heartbeats, rx_sets,
                   tx_hist>>

\* ctx->snr = ++ctx->snr > 100 ? -100 : ctx->snr.
packet_rx_snr ==
    /\ UNCHANGED <<main_vars, cb_vars, st_vars, call_vars>>
    /\ ~fault /\ rx_pc = "snr"
    /\ snr' = NextSnr(snr)
    /\ rx_pc' = "count"
    /\ UNCHANGED <<rx_phase, tx_phase, tx, byte_data_counter, rx_len, rx_i, null_samples,
                   tx_vars, out_vars, ub_vars, rx_hist, tx_hist>>

\* if (++ctx->byte_data_counter % 100 == 0) { snprintf the counter;
\* waveform_send_byte_data_packet }; then return.
packet_rx_count ==
    /\ UNCHANGED <<main_vars, cb_vars, st_vars, tx_call_state>>
    /\ ~fault /\ rx_pc = "count"
    /\ byte_data_counter' = byte_data_counter + 1
    /\ IF HeartbeatDue(byte_data_counter + 1)
          THEN /\ byte_packet' = CounterMessage(byte_data_counter + 1)
               /\ heartbeats' = heartbeats + 1
          ELSE UNCHANGED <<byte_packet, heartbeats>>
    /\ rx_pc' = "idle" /\ rx_len' = 0 /\ rx_i' = 0 /\ null_samples' = NoBuffer
    /\ rx_call_state' = "none"
    /\ UNCHANGED <<rx_phase, tx_phase, tx, snr, tx_vars, speaker, transmitter,
                   meter_value, meters_sent, api_command, ub_vars, rx_saw_tx,
                   rx_blocks, rx_processed, speaker_pairs, rx_odd_seen, rx_sets,
                   rx_flushes, tx_hist>>

packet_rx_step ==
    \/ packet_rx_check
    \/ packet_rx_loop
    \/ packet_rx_loop_end
    \/ packet_rx_send
    \/ packet_rx_meter_set
    \/ packet_rx_meters_send
    \/ packet_rx_snr
    \/ packet_rx_count

\* -------------------------------------------------------------- packet_tx

\* The library calls packet_tx with a packet of len samples.
packet_tx_call(len) ==
    /\ UNCHANGED <<main_vars, cb_vars, st_vars, rx_call_state>>
    /\ ~fault /\ tx_pc = "idle"
    /\ tx_pc' = "check" /\ tx_len' = len /\ tx_i' = 0 /\ xmit_samples' = NoBuffer
    /\ tx_blocks' = 0 /\ tx_saw_tx' = FALSE /\ tx_oob' = {}
    /\ tx_call_state' = wf_state
    /\ UNCHANGED <<ctx_vars, rx_vars, out_vars, rx_oob, fault, rx_hist>>

\* packet_tx with packet_rx's test: it returns when ctx->tx is set.
packet_tx_check_inverted ==
    /\ UNCHANGED <<main_vars, cb_vars, st_vars, rx_call_state>>
    /\ ~fault /\ tx_pc = "check"
    /\ tx_saw_tx' = tx
    /\ IF tx
          THEN /\ tx_pc' = "idle" /\ tx_len' = 0 /\ tx_call_state' = "none"
               /\ UNCHANGED <<tx_i, xmit_samples>>
          ELSE /\ tx_pc' = "loop" /\ tx_i' = 0
               /\ xmit_samples' = ZeroBuffer(tx_len)
               /\ UNCHANGED <<tx_len, tx_call_state>>
    /\ UNCHANGED <<ctx_vars, rx_vars, out_vars, ub_vars, rx_hist, tx_blocks>>

\* if (false == ctx->tx) return;  otherwise the VLA is declared and zeroed.
packet_tx_check ==
    /\ UNCHANGED <<main_vars, cb_vars, st_vars, rx_call_state>>
    /\ ~fault /\ tx_pc = "check"
    /\ tx_saw_tx' = tx
    /\ IF tx = FALSE
          THEN /\ tx_pc' = "idle" /\ tx_len' = 0 /\ tx_call_state' = "none"
               /\ UNCHANGED <<tx_i, xmit_samples>>
          ELSE /\ tx_pc' = "loop" /\ tx_i' = 0
               /\ xmit_samples' = ZeroBuffer(tx_len)
               /\ UNCHANGED <<tx_len, tx_call_state>>
    /\ UNCHANGED <<ctx_vars, rx_vars, out_vars, ub_vars, rx_hist, tx_blocks>>

\* One iteration of for (i = 0; i < len; i += 2): both stores, then the phase.
packet_tx_loop ==
    /\ UNCHANGED <<main_vars, cb_vars, st_vars, call_vars>>
    /\ ~fault /\ tx_pc = "loop" /\ tx_i < tx_len
    /\ xmit_samples' = StorePair(xmit_samples, tx_len, tx_i, HalfSample(tx_phase))
    /\ tx_oob' = tx_oob \cup OutOfBounds(tx_len, tx_i)
    /\ fault' \in (IF OutOfBounds(tx_len, tx_i) = {} THEN {FALSE} ELSE BOOLEAN)
    /\ tx_phase' = NextPhase(tx_phase)
    /\ tx_i' = tx_i + 2
    /\ UNCHANGED <<rx_phase, tx, snr, byte_data_counter, tx_pc, tx_len, rx_vars,
                   out_vars, rx_oob, rx_hist, tx_hist>>

\* The loop's test fails: on to waveform_send_data_packet.
packet_tx_loop_end ==
    /\ UNCHANGED <<main_vars, cb_vars, st_vars, call_vars>>
    /\ ~fault /\ tx_pc = "loop" /\ tx_i >= tx_len
    /\ tx_pc' = "send"
    /\ UNCHANGED <<ctx_vars, tx_len, tx_i, xmit_samples, rx_vars, out_vars, ub_vars,
                   rx_hist, tx_hist>>

\* waveform_send_data_packet(waveform, xmit_samples, len, TRANSMITTER_DATA);
\* then return.
packet_tx_send ==
    /\ UNCHANGED <<main_vars, cb_vars, st_vars, rx_call_state>>
    /\ ~fault /\ tx_pc = "send"
    /\ transmitter' = [stream |-> "TRANSMITTER_DATA", len |-> tx_len,
                       samples |-> xmit_samples, flag |-> tx]
    /\ tx_blocks' = tx_blocks + 1
    /\ tx_pc' = "idle" /\ tx_len' = 0 /\ tx_i' = 0 /\ xmit_samples' = NoBuffer
    /\ tx_call_state' = "none"
    /\ UNCHANGED <<ctx_vars, rx_vars, speaker, meter_value, meters_sent, byte_packet,
                   api_command, ub_vars, rx_hist, tx_saw_tx>>

packet_tx_step ==
    \/ packet_tx_check
    \/ packet_tx_loop
    \/ packet_tx_loop_end
    \/ packet_tx_send

\* ------------------------------------------------------------- state_test

\* state_test keying only a waveform that has been activated: PTT_REQUESTED
\* is ignored until the filter command of an ACTIVE has been sent.
state_tx_needs_active(state, t) ==
    CASE state = "PTT_REQUESTED" /\ api_command # "" -> TRUE
      [] state = "UNKEY_REQUESTED" -> FALSE
      [] OTHER -> t

\* state_test with PTT_REQUESTED as a toggle of the flag.
state_tx_toggle(state, t) ==
    CASE state = "PTT_REQUESTED" -> ~t
      [] state = "UNKEY_REQUESTED" -> FALSE
      [] OTHER -> t

\* state_test unkeying on a state it does not know.
state_tx_default_unkey(state, t) ==
    CASE state = "PTT_REQUESTED" -> TRUE
      [] state \in {"ACTIVE", "INACTIVE"} -> t
      [] OTHER -> FALSE

\* The flag after state_test(state), t being the flag before: only the cases
\* PTT_REQUESTED and UNKEY_REQUESTED of the switch store to ctx->tx.
state_tx(state, t) ==
    CASE state = "PTT_REQUESTED" -> TRUE
      [] state = "UNKEY_REQUESTED" -> FALSE
      [] OTHER -> t

\* state_test setting the filter on the first ACTIVE only.
state_commands_once(state) ==
    IF state = "ACTIVE" /\ api_command = "" THEN <<"filt 0 100 3000">> ELSE <<>>

\* The API commands state_test(state) hands to waveform_send_api_command_cb:
\* the filter setting in the case ACTIVE, none in any other.
state_commands(state) ==
    IF state = "ACTIVE" THEN <<"filt 0 100 3000">> ELSE <<>>

\* The library calls state_test with the waveform's new state: the whole
\* switch.  waveform_send_api_command_cb queues the command and returns:
\* set_filter_callback runs when the radio has answered.  The default case
\* prints the state and falls out of the switch like the others.
state_test(state) ==
    /\ ~fault
    /\ wf_state' = state
    /\ st_repeated' = (wf_state = state)
    /\ tx' = state_tx(state, tx)
    /\ api_command' = IF state_commands(state) = <<>>
                         THEN api_command
                         ELSE state_commands(state)[Len(state_commands(state))]
    /\ st_commands' = Len(state_commands(state))
    /\ api_pending' = api_pending + Len(state_commands(state))
    /\ UNCHANGED <<rx_phase, tx_phase, snr, byte_data_counter, rx_vars, tx_vars,
                   speaker, transmitter, meter_value, meters_sent, byte_packet,
                   ub_vars, rx_hist, tx_hist, call_vars, cb_vars, main_vars>>

\* The library calls set_filter_callback with the radio's answer to one
\* command: the callback prints the code and the message.
set_filter_callback ==
    /\ ~fault /\ api_pending > 0
    /\ api_pending' = api_pending - 1
    /\ UNCHANGED <<ctx_vars, rx_vars, tx_vars, out_vars, ub_vars, rx_hist, tx_hist,
                   wf_state, st_repeated, st_commands, call_vars, cb_vars, main_vars>>

\* ------------------------------------------- echo_command, test_command, data_rx

\* The library calls echo_command with a status of argc arguments: two lines
\* and one per argument go to stderr, and it returns 0.
echo_command(argc) ==
    /\ ~fault
    /\ cb_last' = "echo_command" /\ cb_lines' = 2 + argc
    /\ UNCHANGED <<ctx_vars, rx_vars, tx_vars, out_vars, ub_vars, rx_hist, tx_hist,
                   st_vars, call_vars, main_vars>>

\* The library calls test_command with a command of argc arguments: one line
\* per argument goes to stderr, and it returns 0.
test_command(argc) ==
    /\ ~fault
    /\ cb_last' = "test_command" /\ cb_lines' = argc
    /\ UNCHANGED <<ctx_vars, rx_vars, tx_vars, out_vars, ub_vars, rx_hist, tx_hist,
                   st_vars, call_vars, main_vars>>

\* The library calls data_rx with a byte data packet: three lines go to
\* stderr.
data_rx ==
    /\ ~fault
    /\ cb_last' = "data_rx" /\ cb_lines' = 3
    /\ UNCHANGED <<ctx_vars, rx_vars, tx_vars, out_vars, ub_vars, rx_hist, tx_hist,
                   st_vars, call_vars, main_vars>>

\* ------------------------------------------------------------------- main

\* main starting the radio before it stores the context.
MainAfterStartFirst(pc) ==
    CASE pc = "echo_command" -> "state_test"
      [] pc = "state_test" -> "packet_rx"
      [] pc = "packet_rx" -> "packet_tx"
      [] pc = "packet_tx" -> "data_rx"
      [] pc = "data_rx" -> "test_command"
      [] pc = "test_command" -> "register_meter_list"
      [] pc = "register_meter_list" -> "radio_start"
      [] pc = "radio_start" -> "set_context"
      [] pc = "set_context" -> "radio_wait"
      [] OTHER -> "done"

\* What main does after the registration of a callback, and after the steps
\* that follow the registrations.
MainAfter(pc) ==
    CASE pc = "echo_command" -> "state_test"
      [] pc = "state_test" -> "packet_rx"
      [] pc = "packet_rx" -> "packet_tx"
      [] pc = "packet_tx" -> "data_rx"
      [] pc = "data_rx" -> "test_command"
      [] pc = "test_command" -> "register_meter_list"
      [] pc = "register_meter_list" -> "set_context"
      [] pc = "set_context" -> "radio_start"
      [] pc = "radio_start" -> "radio_wait"
      [] OTHER -> "done"

\* res = waveform_register_..._cb(...); if (res == -1) fprintf(...).  A
\* failure is printed and main goes on; the library holds the callback when
\* the registration succeeded.
main_register(result) ==
    /\ main_pc \in {Callbacks[k] : k \in 1..Len(Callbacks)}
    /\ res' = result
    /\ registered' = IF result = -1 THEN registered ELSE registered \cup {main_pc}
    /\ main_pc' = MainAfter(main_pc)
    /\ UNCHANGED <<ctx_vars, rx_vars, tx_vars, out_vars, ub_vars, rx_hist, tx_hist,
                   st_vars, call_vars, cb_vars, ctx_installed, radio_running>>

\* waveform_register_meter_list(test_waveform, meters, ARRAY_SIZE(meters)).
main_register_meter_list ==
    /\ main_pc = "register_meter_list"
    /\ main_pc' = MainAfter(main_pc)
    /\ UNCHANGED <<ctx_vars, rx_vars, tx_vars, out_vars, ub_vars, rx_hist, tx_hist,
                   st_vars, call_vars, cb_vars, res, registered, ctx_installed,
                   radio_running>>

\* waveform_set_context(test_waveform, &ctx).
main_set_context ==
    /\ main_pc = "set_context"
    /\ ctx_installed' = TRUE
    /\ main_pc' = MainAfter(main_pc)
    /\ UNCHANGED <<ctx_vars, rx_vars, tx_vars, out_vars, ub_vars, rx_hist, tx_hist,
                   st_vars, call_vars, cb_vars, res, registered, radio_running>>

\* res = waveform_radio_start(radio); if (res == -1) fprintf(...).  The
\* library connects and starts its event loops, which call the callbacks.
main_radio_start(result) ==
    /\ main_pc = "radio_start"
    /\ res' = result
    /\ radio_running' = (result # -1)
    /\ main_pc' = MainAfter(main_pc)
    /\ UNCHANGED <<ctx_vars, rx_vars, tx_vars, out_vars, ub_vars, rx_hist, tx_hist,
                   st_vars, call_vars, cb_vars, registered, ctx_installed>>

\* res = waveform_radio_wait(radio) returns: the event loops have ceased.
main_radio_wait(result) ==
    /\ main_pc = "radio_wait"
    /\ rx_pc = "idle" /\ tx_pc = "idle"
    /\ res' = result
    /\ radio_running' = FALSE
    /\ main_pc' = MainAfter(main_pc)
    /\ UNCHANGED <<ctx_vars, rx_vars, tx_vars, out_vars, ub_vars, rx_hist, tx_hist,
                   st_vars, call_vars, cb_vars, registered, ctx_installed>>

\* The library's event loops call a callback: they run, and hold it.
Dispatches(callback) == radio_running /\ callback \in registered

\* --------------------------------------------------------- specifications

\* No callback is running.
Quiescent == rx_pc = "idle" /\ tx_pc = "idle"

\* The callbacks as the library's threads run them: receive, transmit and
\* state callbacks interleave statement by statement; the state callback is
\* called to key and unkey.
Next ==
    \/ \E len \in 0..MaxLen : byte_data_counter < MaxPackets /\ packet_rx_call(len)
    \/ packet_rx_step
    \/ \E len \in 0..MaxLen : tx_phase < MaxTxPairs /\ packet_tx_call(len)
    \/ packet_tx_step
    \/ \E state \in KeyingStates : state_test(state)

Spec == Init /\ [][Next]_vars

\* A long session of one-pair packets, keyed and unkeyed at will, one
\* callback at a time.
NextRun ==
    \/ Quiescent /\ byte_data_counter < MaxRunPackets /\ packet_rx_call(RunLen)
    \/ packet_rx_step
    \/ Quiescent /\ packet_tx_call(RunLen)
    \/ packet_tx_step
    \/ \E state \in KeyingStates : Quiescent /\ state_test(state)

SpecRun == Init /\ [][NextRun]_vars

\* Receive packets of every length up to MaxPhaseLen and transmit packets of
\* PhaseTxLen samples, one callback at a time and keyed or unkeyed at will,
\* for long enough that both phases wrap.
NextPhaseRun ==
    \/ \E len \in 0..MaxPhaseLen :
          Quiescent /\ byte_data_counter < MaxPhasePackets /\ packet_rx_call(len)
    \/ packet_rx_step
    \/ Quiescent /\ packet_tx_call(PhaseTxLen)
    \/ packet_tx_step
    \/ \E state \in KeyingStates : Quiescent /\ state_test(state)

SpecPhase == Init /\ [][NextPhaseRun]_vars

\* A session of one-pair packets in which the library delivers every state,
\* known or not, in any order, and the radio answers the commands at its own
\* pace; one callback at a time.
NextState ==
    \/ Quiescent /\ byte_data_counter < MaxStatePackets /\ packet_rx_call(RunLen)
    \/ packet_rx_step
    \/ Quiescent /\ tx_phase < MaxStateTxPairs /\ packet_tx_call(RunLen)
    \/ packet_tx_step
    \/ \E state \in WaveformStates :
          /\ Quiescent
          /\ state = "ACTIVE" => api_pending < MaxPending
          /\ state_test(state)
    \/ Quiescent /\ set_filter_callback

SpecState == Init /\ [][NextState]_vars

\* Every callback as the library's threads run them: the data callbacks
\* interleave statement by statement with each other, with state_test of
\* every state and with the callbacks that only print.
NextAll ==
    \/ byte_data_counter < MaxAllPackets /\ packet_rx_call(RunLen)
    \/ packet_rx_step
    \/ tx_phase < MaxAllTxPairs /\ packet_tx_call(RunLen)
    \/ packet_tx_step
    \/ \E state \in WaveformStates :
          /\ state = "ACTIVE" => api_pending < MaxAllPending
          /\ state_test(state)
    \/ set_filter_callback
    \/ \E argc \in 1..MaxArgs : echo_command(argc)
    \/ \E argc \in 1..MaxArgs : test_command(argc)
    \/ data_rx

SpecAll == Init /\ [][NextAll]_vars

\* The program from main's first registration on: every result of every
\* registration and of waveform_radio_start, then the callbacks the library
\* holds, one at a time, until waveform_radio_wait returns.
NextMain ==
    \/ \E result \in {0, -1} : main_register(result)
    \/ main_register_meter_list
    \/ main_set_context
    \/ \E result \in {0, -1} : main_radio_start(result)
    \/ \E result \in {0, -1} : main_radio_wait(result)
    \/ /\ Dispatches("packet_rx") /\ Quiescent
       /\ byte_data_counter < MaxMainPackets /\ packet_rx_call(RunLen)
    \/ packet_rx_step
    \/ /\ Dispatches("packet_tx") /\ Quiescent
       /\ tx_phase < MaxMainTxPairs /\ packet_tx_call(RunLen)
    \/ packet_tx_step
    \/ \E state \in KeyingStates :
          Dispatches("state_test") /\ Quiescent /\ state_test(state)
    \/ Dispatches("echo_command") /\ Quiescent /\ echo_command(1)
    \/ Dispatches("test_command") /\ Quiescent /\ test_command(1)
    \/ Dispatches("data_rx") /\ Quiescent /\ data_rx

SpecMain == InitMain /\ [][NextMain]_vars

\* ------------------------------------------------------------------ claims

\* packet_rx, packet_tx: past the test of ctx->tx and not yet returned.
RxSynthesizing == rx_pc \notin {"idle", "check"}
TxSynthesizing == tx_pc \notin {"idle", "check"}

\* The receive invocations whose ctx->snr update has run.
SnrUpdates == IF rx_pc \in {"loop", "send", "meter_set", "meters_send", "snr"}
                 THEN rx_processed - 1 ELSE rx_processed

\* The receive invocations whose counter increment has run.
CounterUpdates == IF RxSynthesizing THEN rx_processed - 1 ELSE rx_processed

\* The value a sequence of decimal digits denotes.
RECURSIVE DecimalValue(_)
DecimalValue(digits) ==
    IF digits = <<>> THEN 0
    ELSE 10 * DecimalValue(SubSeq(digits, 1, Len(digits) - 1)) + digits[Len(digits)]

\* The sawtooth 0, 1, ..., 100, -100, -99, ..., 100, -100, ... at position k.
SawtoothAt(k) == IF k <= 100 THEN k ELSE ((k - 101) % 201) - 100

\* C1: in no reachable state are packet_rx and packet_tx both inside their
\* synthesis section (past the test of the transmit flag, not yet returned).
C1_SynthesisMutex == ~(RxSynthesizing /\ TxSynthesizing)

\* C2: an invocation sends at most one block, packet_rx sends its SPEAKER_DATA
\* block only if it read transmitting = false, and packet_tx sends its
\* TRANSMITTER_DATA block only if it read transmitting = true.
C2_BlockMatchesFlagRead ==
    /\ rx_blocks <= 1 /\ tx_blocks <= 1
    /\ rx_blocks = 1 => (rx_saw_tx = FALSE /\ speaker.stream = "SPEAKER_DATA")
    /\ tx_blocks = 1 => (tx_saw_tx = TRUE /\ transmitter.stream = "TRANSMITTER_DATA")
    /\ speaker.stream \in {"none", "SPEAKER_DATA"}
    /\ transmitter.stream \in {"none", "TRANSMITTER_DATA"}

\* C2's case: under interleaving, both callbacks have sent a block, and the
\* receive invocation's read no longer equals the flag.
C2_Witness == rx_blocks = 1 /\ tx_blocks = 1 /\ rx_pc # "idle" /\ tx = TRUE

\* C3: at the moment a block is sent the transmit flag agrees with the
\* channel: false for a SPEAKER_DATA block, true for a TRANSMITTER_DATA block.
C3_FlagAgreesAtSend ==
    /\ speaker.stream = "SPEAKER_DATA" => speaker.flag = FALSE
    /\ transmitter.stream = "TRANSMITTER_DATA" => transmitter.flag = TRUE

\* C4: rx_phase and tx_phase are in 0..23 in every reachable state, and so is
\* every table entry a sample was read from.
C4_PhasesInRange ==
    /\ rx_phase \in 0..(CYCLE_LEN - 1)
    /\ tx_phase \in 0..(CYCLE_LEN - 1)
    /\ \A i \in DOMAIN null_samples : null_samples[i].entry \in -1..(CYCLE_LEN - 1)
    /\ \A i \in DOMAIN xmit_samples : xmit_samples[i].entry \in -1..(CYCLE_LEN - 1)

\* C4's case: both phases have wrapped, after receive packets of odd and even
\* length and with transmit packets in between.
C4_Witness ==
    /\ speaker_pairs >= CYCLE_LEN /\ rx_odd_seen /\ rx_phase = 0
    /\ transmitter.stream = "TRANSMITTER_DATA" /\ tx_phase = 0
    /\ transmitter.samples[0].entry > 0

\* The index of the first stereo pair of the last SPEAKER_DATA packet, over
\* the whole session.
SpeakerFirstPair == speaker_pairs - (speaker.len \div 2)

\* C5: as long as every processed receive packet had an even sample count,
\* the k-th stereo pair sent to the speaker holds sin_table[k mod 24] * 0.5 in
\* both samples, and after n pairs rx_phase is n mod 24.
C5_RxPhaseContinuity ==
    ~rx_odd_seen =>
        /\ rx_pc \notin {"loop", "send"} => rx_phase = speaker_pairs % CYCLE_LEN
        /\ speaker.stream = "SPEAKER_DATA" =>
              \A j \in 0..((speaker.len \div 2) - 1) :
                 /\ speaker.samples[2 * j] = HalfSample((SpeakerFirstPair + j) % CYCLE_LEN)
                 /\ speaker.samples[2 * j + 1] = HalfSample((SpeakerFirstPair + j) % CYCLE_LEN)

\* C5's case: a two-pair packet straddles the end of the table (pairs 23 and
\* 24 of the session), after transmit packets went out in between.
C5_Witness ==
    /\ ~rx_odd_seen /\ speaker.len = 4 /\ SpeakerFirstPair = CYCLE_LEN - 1
    /\ transmitter.stream = "TRANSMITTER_DATA" /\ rx_pc = "idle"

\* C6: after k processed receive invocations snr is the k-th value of
\* 0, 1, ..., 100, -100, -99, ...: up by one each time, 100 followed by -100.
C6_SnrSawtooth == snr = SawtoothAt(SnrUpdates)

\* C6's case: the sawtooth has gone round once and reset a second time.
C6_Witness == rx_pc = "idle" /\ rx_processed = 302 /\ snr = -100

\* C7 as stated: after 24 consecutive receive packets of 2 samples each, from
\* the zeroed context, snr is -76.
C7_SnrAfter24_Stated ==
    (rx_pc = "idle" /\ rx_processed = 24 /\ speaker_pairs = 24) => snr = -76

\* C7 as amended: after 24 consecutive receive packets of 2 samples each,
\* from the zeroed context, snr is 24.
C7_SnrAfter24 ==
    (rx_pc = "idle" /\ rx_processed = 24 /\ speaker_pairs = 24) => snr = 24

\* C7's case: the 24th receive packet has been processed and no transmit or
\* keying event was ever handled.
C7_Witness ==
    /\ rx_pc = "idle" /\ rx_processed = 24 /\ speaker_pairs = 24 /\ ~tx
    /\ transmitter.stream = "none" /\ byte_packet = NoMessage

\* C8: the heartbeats sent number floor(byte_data_counter / 100): one per
\* positive multiple of 100 the counter reached, none otherwise, and the last
\* message carries that multiple.
C8_Heartbeats ==
    /\ heartbeats = byte_data_counter \div 100
    /\ heartbeats = 0 => byte_packet = NoMessage
    /\ heartbeats > 0 =>
          /\ byte_packet.text = "Callback Counter: "
          /\ DecimalValue(byte_packet.digits) = 100 * (byte_data_counter \div 100)

\* C8's case: the counter has run to 250 and exactly two heartbeats went out,
\* the second carrying 200.
C8_Witness ==
    byte_data_counter = 250 /\ heartbeats = 2 /\ byte_packet.digits = <<2, 0, 0>>

\* C9: byte_data_counter is the number of receive invocations that read
\* transmitting = false and reached their increment; nothing else changes it,
\* so it never decreases.
C9_CounterCountsProcessed == byte_data_counter = CounterUpdates

\* C9's case: one packet was processed, a later receive invocation returned
\* at its test, and a transmit packet went out.
C9_Witness ==
    /\ byte_data_counter = 1 /\ rx_pc = "idle" /\ rx_saw_tx = TRUE
    /\ transmitter.stream = "TRANSMITTER_DATA"

\* C10: every value set on and flushed to the "junk-snr" meter is in the
\* registered range -100..100, and so is snr whenever packet_rx is not running.
C10_SnrInMeterRange ==
    /\ meter_value \in JUNK_SNR_MIN..JUNK_SNR_MAX
    /\ meters_sent \in JUNK_SNR_MIN..JUNK_SNR_MAX
    /\ rx_pc = "idle" => snr \in JUNK_SNR_MIN..JUNK_SNR_MAX

\* C10's case: the maximum was reported and snr has been reset to the minimum.
C10_Witness == rx_pc = "idle" /\ meters_sent = 100 /\ snr = -100

\* What a handler leaves alone when it does nothing: the context and every
\* output of the program.
NoEffect == UNCHANGED <<ctx_vars, out_vars, heartbeats>>

\* C11: a receive invocation that finds ctx->tx set is a complete no-op.  The
\* call and the test that reads the flag as TRUE leave the context (both
\* phases, the flag, the metric, the count) and every output unchanged, and
\* the test returns at once: no listener block, no metric update, no flush,
\* no heartbeat, no processed packet.
C11_RxNoOpWhileTransmitting ==
    [][ /\ (rx_pc = "idle" /\ rx_pc' = "check") => NoEffect
        /\ (rx_pc = "check" /\ rx_pc' # "check" /\ tx) =>
              /\ rx_pc' = "idle"
              /\ NoEffect
              /\ rx_blocks' = 0 /\ rx_sets' = 0 /\ rx_flushes' = 0
              /\ rx_processed' = rx_processed
              /\ speaker_pairs' = speaker_pairs ]_vars

\* A receive invocation has returned on finding the flag set, after an
\* earlier packet was processed: the listener's block and the context are
\* still those of that packet.
C11_Witness ==
    /\ rx_pc = "idle" /\ rx_saw_tx = TRUE /\ rx_blocks = 0
    /\ rx_processed = 1 /\ byte_data_counter = 1 /\ snr = 1
    /\ speaker.stream = "SPEAKER_DATA" /\ speaker.len = 2 /\ rx_phase = 1
    /\ tx = TRUE

\* C12: a transmit invocation that finds ctx->tx clear is a complete no-op;
\* one that finds it set sends exactly one TRANSMITTER_DATA block and changes
\* nothing of the context but tx_phase: no step of packet_tx touches rx_phase,
\* the flag, the metric, the count, the listener's block, the meter, the
\* byte-data stream or the API.
C12_TxOnlyWhileTransmitting ==
    [][ /\ tx_vars' # tx_vars =>
              UNCHANGED <<rx_phase, tx, snr, byte_data_counter, speaker, meter_value,
                          meters_sent, byte_packet, api_command, heartbeats>>
        /\ (tx_pc = "check" /\ tx_pc' # "check" /\ ~tx) =>
              /\ tx_pc' = "idle"
              /\ NoEffect
              /\ tx_blocks' = 0
        /\ (tx_pc = "check" /\ tx_pc' # "check" /\ tx) => tx_pc' = "loop"
        /\ (tx_pc # "idle" /\ tx_pc' = "idle" /\ tx_saw_tx') =>
              /\ tx_blocks' = 1
              /\ transmitter'.stream = "TRANSMITTER_DATA" ]_vars

\* Both cases have happened: a transmit invocation has sent its block and
\* advanced tx_phase, and the one after it returned on finding the flag
\* clear, with the block and the phase as they were.
C12_Witness ==
    /\ tx_pc = "idle" /\ tx_saw_tx = FALSE /\ tx_blocks = 0 /\ tx = FALSE
    /\ transmitter.stream = "TRANSMITTER_DATA" /\ transmitter.len = 2 /\ tx_phase = 1
    /\ rx_phase = 0 /\ snr = 0 /\ byte_data_counter = 0

\* A step of state_test: it is no step of packet_rx or packet_tx, and it
\* answers no command.
StateTestStep == UNCHANGED <<rx_vars, tx_vars>> /\ api_pending' >= api_pending

\* C13: whatever the state before, and whether or not ACTIVE was ever
\* delivered, state_test(PTT_REQUESTED) leaves ctx->tx set and
\* state_test(UNKEY_REQUESTED) leaves it clear; neither changes rx_phase,
\* tx_phase, snr or byte_data_counter.
C13_KeyingSetsFlagOnly ==
    [][ StateTestStep =>
          /\ wf_state' = "PTT_REQUESTED" => tx' = TRUE
          /\ wf_state' = "UNKEY_REQUESTED" => tx' = FALSE
          /\ wf_state' \in KeyingStates =>
                UNCHANGED <<rx_phase, tx_phase, snr, byte_data_counter>> ]_vars

\* PTT_REQUESTED has been handled by a waveform that was never activated (no
\* command was ever sent) and has processed packets of both kinds: the flag
\* is set, the rest of the context is as the packets left it.
C13_Witness ==
    /\ wf_state = "PTT_REQUESTED" /\ ~st_repeated /\ tx = TRUE
    /\ api_command = "" /\ api_pending = 0
    /\ Quiescent /\ tx_phase = 1 /\ byte_data_counter = 1 /\ snr = 1 /\ rx_phase = 1

\* C14: state_test(PTT_REQUESTED) right after state_test(PTT_REQUESTED)
\* changes nothing: the context and every output are what the first call
\* left, no command is issued, no block or telemetry is sent, and ctx->tx is
\* set.
C14_PttIdempotent ==
    [][ (StateTestStep /\ wf_state = "PTT_REQUESTED" /\ wf_state' = "PTT_REQUESTED") =>
          /\ NoEffect
          /\ tx' = TRUE
          /\ st_commands' = 0 /\ api_pending' = api_pending
          /\ UNCHANGED <<rx_hist, tx_hist, ub_vars>> ]_vars

\* PTT_REQUESTED has been handled twice in a row, in a session that has sent
\* blocks of both kinds.
C14_Witness ==
    /\ wf_state = "PTT_REQUESTED" /\ st_repeated /\ tx = TRUE /\ st_commands = 0
    /\ Quiescent /\ tx_phase = 1 /\ byte_data_counter = 1

\* C15: after state_test(INACTIVE) ctx->tx is clear, whatever it was before.
C15_DeactivateClearsFlag == wf_state = "INACTIVE" => tx = FALSE

\* C16: every state_test(ACTIVE), in any state, hands exactly one command,
\* "filt 0 100 3000", to the API and returns with its completion outstanding,
\* leaving ctx->tx and the rest of the context unchanged; state_test of any
\* other state hands none.
C16_ActiveSendsOneCommand ==
    [][ StateTestStep =>
          /\ UNCHANGED <<speaker, transmitter, meter_value, meters_sent, byte_packet,
                         heartbeats>>
          /\ IF wf_state' = "ACTIVE"
                THEN /\ st_commands' = 1
                     /\ api_command' = "filt 0 100 3000"
                     /\ api_pending' = api_pending + 1
                     /\ UNCHANGED ctx_vars
                ELSE /\ st_commands' = 0
                     /\ api_command' = api_command
                     /\ api_pending' = api_pending ]_vars

\* ACTIVE has been handled twice in a row while keyed, and neither command
\* has been answered yet.
C16_Witness ==
    /\ wf_state = "ACTIVE" /\ st_repeated /\ st_commands = 1
    /\ api_command = "filt 0 100 3000" /\ api_pending = 2
    /\ tx = TRUE /\ tx_phase = 1

\* C17: state_test of a state that is none of the four known ones changes
\* nothing: the context and the outputs are unchanged, no command is issued
\* and the handler returns, so that the callbacks after it run.
C17_UnknownStateIgnored ==
    [][ (StateTestStep /\ wf_state' = "UNKNOWN") =>
          /\ NoEffect
          /\ st_commands' = 0 /\ api_pending' = api_pending
          /\ ~fault'
          /\ UNCHANGED <<rx_hist, tx_hist>> ]_vars

\* An unknown state was delivered to a keyed waveform, and the transmit
\* packet that came after it is being processed.
C17_Witness ==
    /\ wf_state = "UNKNOWN" /\ tx = TRUE /\ st_commands = 0
    /\ tx_pc = "send" /\ tx_saw_tx = TRUE /\ tx_phase = 2
    /\ byte_data_counter = 1

\* C18: the block a processed packet_rx or packet_tx sends has the sample
\* count of the packet the callback was called with, whatever that count is,
\* and its buffer holds that many samples.
C18_BlockHasPacketLength ==
    [][ /\ rx_blocks' = rx_blocks + 1 =>
              /\ speaker'.len = rx_len
              /\ DOMAIN speaker'.samples = 0..(rx_len - 1)
        /\ tx_blocks' = tx_blocks + 1 =>
              /\ transmitter'.len = tx_len
              /\ DOMAIN transmitter'.samples = 0..(tx_len - 1) ]_vars

\* Blocks of different lengths have been sent: the receive invocation, called
\* with a packet of one sample, has just sent a block of one sample, after a
\* transmit block of two.
C18_Witness ==
    /\ rx_pc = "meter_set" /\ rx_len = 1 /\ rx_blocks = 1
    /\ speaker.stream = "SPEAKER_DATA" /\ speaker.len = 1
    /\ transmitter.stream = "TRANSMITTER_DATA" /\ transmitter.len = 2

\* C19: the state handled last when the library calls a data callback decides
\* what that invocation does.  A receive invocation called after
\* PTT_REQUESTED was handled, and before the next UNKEY_REQUESTED is, does
\* not process its packet; a transmit invocation processes its packet only
\* when it was called after PTT_REQUESTED was handled and before the next
\* UNKEY_REQUESTED is.
C19_StateAtDispatchDecides ==
    /\ RxSynthesizing => rx_call_state # "PTT_REQUESTED"
    /\ TxSynthesizing => tx_call_state = "PTT_REQUESTED"

\* The receive invocation, running or returned last, processes its packet.
RxProcessing == RxSynthesizing \/ rx_blocks = 1

\* The processed packets before the one of that invocation.
RxEarlier == rx_processed - 1

\* C20: the order of one processed receive invocation, one callback at a
\* time.  The "junk-snr" value is set only after the listener block is sent
\* and flushed only after it is set, each once; the value set and flushed is
\* the metric before its advance (0 for the first processed packet); the
\* metric is advanced only after the flush, the count incremented only after
\* the advance, and the heartbeats follow the count; an invocation that has
\* returned has sent one block, set the meter once and flushed once.
C20_RxOrder ==
    /\ rx_flushes <= rx_sets /\ rx_sets <= rx_blocks /\ rx_blocks <= 1
    /\ RxProcessing =>
          /\ snr \in {SawtoothAt(RxEarlier), SawtoothAt(RxEarlier + 1)}
          /\ byte_data_counter \in {RxEarlier, RxEarlier + 1}
          /\ rx_sets = 1 => meter_value = SawtoothAt(RxEarlier)
          /\ rx_flushes = 1 => meters_sent = SawtoothAt(RxEarlier)
          /\ (rx_sets = 1 /\ rx_processed = 1) => meter_value = 0
          /\ snr = SawtoothAt(RxEarlier + 1) => rx_flushes = 1
          /\ byte_data_counter = RxEarlier + 1 => snr = SawtoothAt(RxEarlier + 1)
          /\ heartbeats = byte_data_counter \div HEARTBEAT_PERIOD
          /\ rx_pc = "idle" =>
                /\ rx_sets = 1 /\ rx_flushes = 1
                /\ byte_data_counter = RxEarlier + 1

\* The 101st processed packet, between the advance of its metric and the
\* increment of the count: the block is sent, 100 has been set and flushed,
\* the metric has wrapped to -100, the count is still 100.
C20_Witness ==
    /\ rx_pc = "count" /\ rx_processed = 101
    /\ rx_blocks = 1 /\ rx_sets = 1 /\ rx_flushes = 1
    /\ meter_value = 100 /\ meters_sent = 100 /\ snr = -100
    /\ byte_data_counter = 100 /\ heartbeats = 1

\* The iterations a loop for (i = 0; i < len; i += 2) has run when its index
\* is i; each iteration advances the phase once.
LoopIterations(i) == i \div 2

\* C21: for every packet length n, odd ones included, the loop of a processed
\* packet has run floor(n / 2) iterations, and so advanced the phase that
\* many times, when the block is sent.
C21_LoopRunsHalfLength ==
    /\ rx_pc = "send" => LoopIterations(rx_i) = rx_len \div 2
    /\ tx_pc = "send" => LoopIterations(tx_i) = tx_len \div 2

\* C23: for every packet length n, odd ones included, no store of either
\* loop falls outside the n samples of the buffer.
C23_StoresInsideBuffer == rx_oob = {} /\ tx_oob = {}

\* Every field of the context has one writer: a step that changes rx_phase
\* is a step of packet_rx, one that changes tx_phase a step of packet_tx, one
\* that changes ctx->tx a step of state_test keying or unkeying; a step of
\* echo_command, test_command or data_rx changes no field.
SingleWriterStep ==
    /\ rx_phase' # rx_phase => rx_vars' # rx_vars
    /\ tx_phase' # tx_phase => tx_vars' # tx_vars
    /\ tx' # tx => (UNCHANGED <<rx_vars, tx_vars, cb_vars>> /\ wf_state' \in KeyingStates)
    /\ cb_vars' # cb_vars => UNCHANGED ctx_vars

\* rx_phase keeps its value while ctx->tx stays set, tx_phase while it stays
\* clear.
PhaseKeptStep ==
    /\ (tx /\ tx') => rx_phase' = rx_phase
    /\ (~tx /\ ~tx') => tx_phase' = tx_phase

\* C22: under any interleaving of the callbacks each field of the context has
\* its single writer, rx_phase keeps its value across a whole transmit period
\* and tx_phase across a whole receive period, and the command, status and
\* byte data callbacks change no field of the context.
C22_SingleWriterAndPeriods == [][SingleWriterStep /\ PhaseKeptStep]_vars

\* A callback has been called: one is running, or one has left its trace.
CallbackHasRun ==
    \/ rx_pc # "idle" \/ tx_pc # "idle"
    \/ wf_state # "none" \/ cb_last # "none"
    \/ speaker # NoPacket \/ transmitter # NoPacket

\* main has called waveform_radio_start.
RadioStartCalled == main_pc \in {"radio_wait", "done"}

\* C24: whatever the six registrations return, main stores the context,
\* still all zero, before it calls waveform_radio_start: the radio is never
\* started, and no callback has ever been called, without the context stored,
\* and until the start the context is as ctx = {0} made it.
C24_ContextBeforeStart ==
    /\ RadioStartCalled => ctx_installed
    /\ radio_running => ctx_installed
    /\ CallbackHasRun => (ctx_installed /\ RadioStartCalled)
    /\ ~RadioStartCalled =>
          /\ ~radio_running
          /\ ctx_vars = <<0, 0, FALSE, 0, 0>>

\* Four of the six registrations failed; main has stored the context and
\* started the radio all the same, and a receive packet has been processed
\* since.
C24_Witness ==
    /\ registered = {"state_test", "packet_rx"}
    /\ main_pc = "radio_wait" /\ ctx_installed /\ radio_running /\ res = 0
    /\ byte_data_counter = 1 /\ wf_state = "UNKEY_REQUESTED"

====
